---- MODULE Spec2Model ----
(***************************************************************************)
(* A model of the arena allocator of arena.h (src/unnamed/part_000) as a   *)
(* state machine.  The state is the Arena struct, the ArenaBlock headers   *)
(* that malloc has handed out and that are not freed yet, the ArenaMark    *)
(* values the caller holds, and the result of the last call.  Addresses    *)
(* and sizes are PtrBits wide and all arithmetic on them wraps as size_t   *)
(* and uintptr_t arithmetic does.                                          *)
(***************************************************************************)
EXTENDS Integers, Sequences, FiniteSets, TLC

\* ------------------------------------------------------------- platform

\* Width of size_t and uintptr_t in the model.
PtrBits == 8

\* Number of malloc granules (of MaxAlignT bytes each) in the heap.
HeapGranules == 5

\* How many reads of freed memory may yield something else than what the
\* memory held when it was freed.
MaxGarbageReads == 1

SIZE_MAX == 2 ^ PtrBits - 1

Wrap(x) == x % (SIZE_MAX + 1)

\* _Alignof(max_align_t); malloc returns addresses that are multiples of it.
MaxAlignT == 16

\* sizeof(ArenaBlock): prev, capacity, offset, one word of WordBytes each.
WordBytes == 8

HeaderSize == 3 * WordBytes

NULL == 0

\* The addresses malloc serves: [HeapLo, HeapHi).  The heap ends well below
\* the top of the address space, as a user-space heap does.
HeapLo == MaxAlignT

HeapHi == HeapLo + HeapGranules * MaxAlignT

HeapAddrs == {q \in HeapLo .. (HeapHi - 1) : q % MaxAlignT = 0}

VARIABLES
  heap,                \* malloc's books: address |-> bytes, of every unfreed block
  blocks,              \* address |-> [prev, capacity, offset], the block headers
  current,             \* Arena.current (NULL = 0)
  default_block_size,  \* Arena.default_block_size
  reserved,            \* Arena.reserved
  garbage_reads,       \* reads of freed memory that have yielded garbage
  marks,               \* slot |-> the ArenaMark [block, offset] the caller holds
                       \*          there, with its history [taken, used, ok, outer]
  track,               \* the histories this behaviour records: "live", "marks"
  live,                \* the regions handed out and not invalidated since
  ret                  \* the last call: [op, size, align, slot, ptr]

vars == <<heap, blocks, current, default_block_size, reserved, garbage_reads,
          marks, track, live, ret>>

arena == <<heap, blocks, current, default_block_size, reserved>>

\* ------------------------------------------------------------- helpers

\* b->data
Data(b) == b + HeaderSize

\* The blocks reachable from b through prev, newest first.
RECURSIVE ChainFrom(_, _)
ChainFrom(blk, b) ==
  IF b = NULL THEN <<>> ELSE <<b>> \o ChainFrom(blk, blk[b].prev)

Chain == ChainFrom(blocks, current)

SeqSet(s) == {s[i] : i \in 1 .. Len(s)}

RECURSIVE SumSeq(_, _)
SumSeq(f, s) == IF s = <<>> THEN 0 ELSE f[Head(s)] + SumSeq(f, Tail(s))

Restrict(f, S) == [x \in S |-> f[x]]

EmptyFn == [x \in {} |-> 0]

\* ------------------------------------------------------ pure functions

\* An align-up that does not round: it returns the address it is given.
align_up_no_round(p, align) == p

arena__align_up_ptr(p, align) ==
  LET al  == IF align = 0 THEN MaxAlignT ELSE align
      rem == p % al
      add == al - rem
  IN  IF p > SIZE_MAX - add THEN 0 ELSE p + add

\* A size policy that doubles: twice the larger of the two.
twice_the_larger(a, b) == Wrap(2 * (IF a > b THEN a ELSE b))

arena__max(a, b) == IF a > b THEN a ELSE b

\* malloc(n): NULL, or any suitably aligned address whose n bytes lie in the
\* heap and overlap no unfreed block.
Malloc(hp, n) ==
  {NULL} \cup
  {q \in HeapAddrs :
     /\ q + n <= HeapHi
     /\ \A b \in DOMAIN hp : q + n <= b \/ b + hp[b] <= q}

\* arena__new_block(capacity): the set of [heap, blocks, b] it can produce;
\* b = NULL when it fails.
arena__new_block(hp, blk, capacity) ==
  LET cap == IF capacity = 0 THEN 1 ELSE capacity
  IN  IF cap > SIZE_MAX - HeaderSize
      THEN {[heap |-> hp, blocks |-> blk, b |-> NULL]}
      ELSE {IF q = NULL
            THEN [heap |-> hp, blocks |-> blk, b |-> NULL]
            ELSE [heap   |-> [x \in DOMAIN hp \cup {q} |->
                                IF x = q THEN HeaderSize + cap ELSE hp[x]],
                  blocks |-> [x \in DOMAIN blk \cup {q} |->
                                IF x = q
                                THEN [prev |-> NULL, capacity |-> cap, offset |-> 0]
                                ELSE blk[x]],
                  b      |-> q]
            : q \in Malloc(hp, HeaderSize + cap)}

\* free(b)
Free(f, b) == Restrict(f, DOMAIN f \ {b})

arena_bytes_reserved == reserved

arena_bytes_used == Wrap(SumSeq([b \in DOMAIN blocks |-> blocks[b].offset], Chain))

\* A store of the bytes `bytes` at addresses lo, lo+1, ...: what memset and
\* memcpy do.  Of the memory only the block headers are modelled, so the
\* store shows in a header word when the range covers bytes of it.  Words
\* are little-endian.
ByteOf(v, j) == (v \div (256 ^ j)) % 256

\* The bytes of a word that a PtrBits-wide value occupies.
SigBytes == (PtrBits + 7) \div 8

\* The word at address a, holding old, after the store.
WordValue(old, a, lo, bytes) ==
  LET NewByte(j) == IF lo <= a + j /\ a + j < lo + Len(bytes)
                    THEN bytes[a + j - lo + 1]
                    ELSE ByteOf(old, j)
      RECURSIVE Sum(_)
      Sum(j) == IF j = SigBytes THEN 0 ELSE NewByte(j) * (256 ^ j) + Sum(j + 1)
  IN  IF lo + Len(bytes) <= a \/ a + WordBytes <= lo THEN old ELSE Wrap(Sum(0))

Store(blk, lo, bytes) ==
  [x \in DOMAIN blk |->
     [prev     |-> WordValue(blk[x].prev, x, lo, bytes),
      capacity |-> WordValue(blk[x].capacity, x + WordBytes, lo, bytes),
      offset   |-> WordValue(blk[x].offset, x + 2 * WordBytes, lo, bytes)]]

\* A store outside the heap faults.
Mapped(lo, n) == n = 0 \/ (HeapLo <= lo /\ lo + n <= HeapHi)

Zeros(n) == [i \in 1 .. n |-> 0]

\* ---------------------------------------------------------- allocation

Failed(hp, blk, cur, dflt, rsv) ==
  [heap |-> hp, blocks |-> blk, current |-> cur, default_block_size |-> dflt,
   reserved |-> rsv, ptr |-> NULL]

\* The for (;;) loop of arena_alloc_align, entered with a->current = cur:
\* the set of outcomes [heap, blocks, current, default_block_size, reserved,
\* ptr], one for every choice malloc can make.  b is a->current throughout.
RECURSIVE AllocLoop(_, _, _, _, _, _, _)
AllocLoop(hp, blk, cur, dflt, rsv, size, align) ==
  LET b           == blk[cur]
      base        == Wrap(Data(cur) + b.offset)
      aligned     == arena__align_up_ptr(base, align)
      aligned_off == Wrap(aligned - Data(cur))
      \* line 99: size_t min_needed = size = (align ? (align - 1) : 0);
      size2       == IF align # 0 THEN align - 1 ELSE 0
      min_needed  == size2
      cap         == arena__max(dflt, min_needed)
  IN  IF aligned = 0
      THEN {Failed(hp, blk, cur, dflt, rsv)}
      ELSE IF aligned_off <= b.capacity /\ b.capacity - aligned_off >= size
      THEN {[heap |-> hp,
             blocks |-> [blk EXCEPT ![cur].offset = Wrap(aligned_off + size)],
             current |-> cur, default_block_size |-> dflt, reserved |-> rsv,
             ptr |-> aligned]}
      ELSE IF align # 0 /\ size > SIZE_MAX - (align - 1)
      THEN {Failed(hp, blk, cur, dflt, rsv)}
      ELSE UNION {
             IF nb.b = NULL
             THEN {Failed(hp, blk, cur, dflt, rsv)}
             ELSE AllocLoop(nb.heap,
                            [nb.blocks EXCEPT ![nb.b].prev = cur],
                            nb.b, dflt,
                            Wrap(rsv + nb.blocks[nb.b].capacity),
                            size2, align)
             : nb \in arena__new_block(hp, blk, cap)}

\* arena_init(a, initial_block_size): the set of outcomes.
arena_init(hp, blk, initial_block_size) ==
  {[heap |-> nb.heap, blocks |-> nb.blocks, current |-> nb.b,
    default_block_size |-> IF initial_block_size # 0 THEN initial_block_size ELSE 1,
    reserved |-> IF nb.b # NULL THEN nb.blocks[nb.b].capacity ELSE 0]
   : nb \in arena__new_block(hp, blk, initial_block_size)}

\* arena_alloc_align without the size == 0 return of lines 74-75.
alloc_align_no_zero_return(size, align) ==
  IF current = NULL
  THEN UNION {
         IF i.current = NULL
         THEN {Failed(i.heap, i.blocks, i.current, i.default_block_size, i.reserved)}
         ELSE AllocLoop(i.heap, i.blocks, i.current, i.default_block_size,
                        i.reserved, size, align)
         : i \in arena_init(heap, blocks,
                            arena__max(default_block_size,
                                       Wrap(size + (IF align # 0 THEN align ELSE 0))))}
  ELSE AllocLoop(heap, blocks, current, default_block_size, reserved, size, align)

\* arena_alloc_align(a, size, align): the set of outcomes.
arena_alloc_align(size, align) ==
  IF size = 0
  THEN {Failed(heap, blocks, current, default_block_size, reserved)}
  ELSE IF current = NULL
  THEN UNION {
         IF i.current = NULL
         THEN {Failed(i.heap, i.blocks, i.current, i.default_block_size, i.reserved)}
         ELSE AllocLoop(i.heap, i.blocks, i.current, i.default_block_size,
                        i.reserved, size, align)
         : i \in arena_init(heap, blocks,
                            arena__max(default_block_size,
                                       Wrap(size + (IF align # 0 THEN align ELSE 0))))}
  ELSE AllocLoop(heap, blocks, current, default_block_size, reserved, size, align)

\* ----------------------------------------------------- the caller's side

\* The variables in which the caller keeps marks.
Slots == {1, 2}

NoMark == [taken |-> FALSE, block |-> NULL, offset |-> 0,
           used |-> 0, ok |-> FALSE, outer |-> {}, freed |-> FALSE]

\* A mark stops being `ok` (valid, with only allocations and nested
\* mark/release pairs since it was taken) at a reset, destroy or init, when
\* a mark taken before it is released, and when a mark that is not ok is
\* released.  `used` is bytes_used() when it was taken, `outer` the ok marks
\* held then, `freed` whether a reset has freed its block since.
Stale(m) == [m EXCEPT !.used = 0, !.ok = FALSE, !.outer = {}]

AllStale == [k \in Slots |-> Stale(marks[k])]

\* A region stays live while its block is in the chain.
InChain(lv, blk, cur) == {r \in lv : r.blk \in SeqSet(ChainFrom(blk, cur))}

Live(lv) == /\ live' = IF "live" \in track THEN lv ELSE {}
            /\ track' = track

Region(o, size) == [addr |-> o.ptr, size |-> size, blk |-> o.current]

\* --------------------------------------------------------------- actions

\* The Arena before its first call: zeroed, with no block.  t is the set of
\* histories the behaviour records.
Boot(t) ==
  /\ heap = EmptyFn
  /\ blocks = EmptyFn
  /\ current = NULL
  /\ default_block_size = 0
  /\ reserved = 0
  /\ garbage_reads = 0
  /\ marks = [k \in Slots |-> NoMark]
  /\ track = t
  /\ live = {}
  /\ ret = [op |-> "none", size |-> 0, align |-> 0, slot |-> 0, ptr |-> NULL]

Init == Boot({})

Into(o) ==
  /\ UNCHANGED garbage_reads
  /\ heap' = o.heap
  /\ blocks' = o.blocks
  /\ current' = o.current
  /\ default_block_size' = o.default_block_size
  /\ reserved' = o.reserved

\* The caller initializes an Arena that owns no block (a zeroed, destroyed
\* or failed one): the lifecycle of the Arena.
ArenaInit(initial_block_size) ==
  \E o \in arena_init(heap, blocks, initial_block_size) :
    /\ current = NULL
    /\ Into(o)
    /\ marks' = AllStale
    /\ Live({})
    /\ ret' = [op |-> "init", size |-> initial_block_size, align |-> 0,
               slot |-> 0, ptr |-> NULL]

\* An arena_destroy that frees the current block and does not walk on.
destroy_current_only ==
  /\ heap' = Free(heap, current)
  /\ blocks' = Free(blocks, current)
  /\ current' = NULL
  /\ default_block_size' = 0
  /\ reserved' = 0
  /\ UNCHANGED garbage_reads
  /\ marks' = AllStale
  /\ Live({})
  /\ ret' = [op |-> "destroy", size |-> 0, align |-> 0, slot |-> 0, ptr |-> NULL]

\* arena_destroy: free every block of the chain.
ArenaDestroy ==
  /\ heap' = Restrict(heap, DOMAIN heap \ SeqSet(Chain))
  /\ blocks' = Restrict(blocks, DOMAIN blocks \ SeqSet(Chain))
  /\ current' = NULL
  /\ default_block_size' = 0
  /\ reserved' = 0
  /\ UNCHANGED garbage_reads
  /\ marks' = AllStale
  /\ Live({})
  /\ ret' = [op |-> "destroy", size |-> 0, align |-> 0, slot |-> 0, ptr |-> NULL]

\* The end of every allocating call: ret holds the arena_alloc_align call
\* that ran (arena_alloc, arena_zalloc_align and arena_strdup make one and
\* return its result).
Allocated(o, size, align) ==
  /\ Into(o)
  /\ marks' = marks
  /\ Live(InChain(live, o.blocks, o.current)
            \cup (IF o.ptr # NULL THEN {Region(o, size)} ELSE {}))
  /\ ret' = [op |-> "alloc_align", size |-> size, align |-> align, slot |-> 0,
             ptr |-> o.ptr]

ArenaAllocAlign(size, align) ==
  \E o \in arena_alloc_align(size, align) : Allocated(o, size, align)

ArenaAlloc(size) ==
  \E o \in arena_alloc_align(size, MaxAlignT) : Allocated(o, size, MaxAlignT)

\* arena_zalloc_align: memset(p, 0, size) on the region returned.
ArenaZallocAlign(size, align) ==
  \E o \in arena_alloc_align(size, align) :
    /\ o.ptr # NULL => Mapped(o.ptr, size)
    /\ Allocated([o EXCEPT !.blocks =
                    IF o.ptr # NULL THEN Store(o.blocks, o.ptr, Zeros(size))
                    ELSE o.blocks],
                 size, align)

\* arena_strdup: s is the string's bytes without the terminator.
ArenaStrdup(s) ==
  LET n == Wrap(Len(s) + 1)
  IN  \E o \in arena_alloc_align(n, 1) :
        /\ o.ptr # NULL => Mapped(o.ptr, n)
        /\ Allocated([o EXCEPT !.blocks =
                        IF o.ptr # NULL THEN Store(o.blocks, o.ptr, s \o <<0>>)
                        ELSE o.blocks],
                     n, 1)

\* What a read of a word of a freed block can yield: the value it held, or
\* what the allocator has put there since (a link or key of its own, here a
\* heap address).  g counts the reads that have yielded that.
FreedRead(v, g) ==
  {[value |-> v, garbage |-> g]}
  \cup (IF g < MaxGarbageReads /\ v # HeapLo
        THEN {[value |-> HeapLo, garbage |-> g + 1]} ELSE {})

\* The loop of arena_reset from block b on: free(b), then
\* a->reserved -= b->capacity, which reads the freed block.  The set of
\* outcomes [heap, oldest, reserved, garbage].
RECURSIVE ResetWalk(_, _, _, _)
ResetWalk(hp, b, rsv, g) ==
  IF blocks[b].prev = NULL
  THEN {[heap |-> hp, oldest |-> b, reserved |-> rsv, garbage |-> g]}
  ELSE UNION {ResetWalk(Free(hp, b), blocks[b].prev, Wrap(rsv - c.value), c.garbage)
              : c \in FreedRead(blocks[b].capacity, g)}

ArenaReset ==
  /\ IF current = NULL
     THEN UNCHANGED <<arena, garbage_reads>>
     ELSE \E w \in ResetWalk(heap, current, reserved, garbage_reads) :
            /\ garbage_reads' = w.garbage
            /\ heap' = w.heap
            /\ blocks' = [Restrict(blocks, DOMAIN w.heap) EXCEPT ![w.oldest].offset = 0]
            /\ current' = w.oldest
            /\ reserved' = w.reserved
            /\ UNCHANGED default_block_size
  /\ marks' = [k \in Slots |->
                 [Stale(marks[k]) EXCEPT !.freed =
                    @ \/ (marks[k].ok /\ marks[k].block # NULL
                             /\ marks[k].block # current')]]
  /\ Live({})
  /\ ret' = [op |-> "reset", size |-> 0, align |-> 0, slot |-> 0, ptr |-> NULL]

arena_mark == [block |-> current,
               offset |-> IF current # NULL THEN blocks[current].offset ELSE 0]

ArenaMark(i) ==
  /\ marks' = [k \in Slots |->
                 IF k = i
                 THEN IF "marks" \in track
                      THEN [taken |-> TRUE, block |-> arena_mark.block,
                            offset |-> arena_mark.offset, used |-> arena_bytes_used,
                            ok |-> TRUE, outer |-> {j \in Slots \ {i} : marks[j].ok},
                            freed |-> FALSE]
                      ELSE [NoMark EXCEPT !.taken = TRUE, !.block = arena_mark.block,
                                          !.offset = arena_mark.offset]
                 ELSE [marks[k] EXCEPT !.outer = @ \ {i}]]
  /\ ret' = [op |-> "mark", size |-> 0, align |-> 0, slot |-> i, ptr |-> NULL]
  /\ UNCHANGED <<arena, garbage_reads, track, live>>

\* The while loop of arena_release: [heap, blocks, current, reserved].
RECURSIVE ReleaseWalk(_, _, _, _, _)
ReleaseWalk(hp, blk, cur, rsv, mblock) ==
  IF cur # NULL /\ cur # mblock
  THEN ReleaseWalk(Free(hp, cur), Free(blk, cur), blk[cur].prev,
                   Wrap(rsv - blk[cur].capacity), mblock)
  ELSE [heap |-> hp, blocks |-> blk, current |-> cur, reserved |-> rsv]

\* An arena_release whose loop is a do ... while: it frees the current
\* block before it compares it with the mark.
release_do_while(m) ==
  IF current = NULL
  THEN [heap |-> heap, blocks |-> blocks, current |-> current, reserved |-> reserved]
  ELSE LET w == ReleaseWalk(Free(heap, current), Free(blocks, current),
                            blocks[current].prev,
                            Wrap(reserved - blocks[current].capacity), m.block)
       IN  IF w.current = m.block /\ w.current # NULL
           THEN [w EXCEPT !.blocks[w.current].offset =
                   IF m.offset <= w.blocks[w.current].capacity THEN m.offset ELSE 0]
           ELSE w

arena_release(m) ==
  IF current = NULL
  THEN [heap |-> heap, blocks |-> blocks, current |-> current, reserved |-> reserved]
  ELSE LET w == ReleaseWalk(heap, blocks, current, reserved, m.block)
       IN  IF w.current = m.block /\ w.current # NULL
           THEN [w EXCEPT !.blocks[w.current].offset =
                   IF m.offset <= w.blocks[w.current].capacity THEN m.offset ELSE 0]
           ELSE w

ArenaRelease(i) ==
  /\ marks[i].taken
  /\ LET w == arena_release(marks[i])
     IN  /\ heap' = w.heap
         /\ blocks' = w.blocks
         /\ current' = w.current
         /\ reserved' = w.reserved
         /\ Live({r \in InChain(live, w.blocks, w.current) :
                    r.blk = marks[i].block
                      => r.addr < Data(r.blk) + w.blocks[r.blk].offset})
  /\ UNCHANGED <<default_block_size, garbage_reads>>
  /\ marks' = IF marks[i].ok
              THEN [k \in Slots |-> IF i \in marks[k].outer THEN Stale(marks[k])
                                    ELSE marks[k]]
              ELSE AllStale
  /\ ret' = [op |-> "release", size |-> 0, align |-> 0, slot |-> i, ptr |-> NULL]

\* ------------------------------------------------------------ the inputs

\* The calls the caller makes, with arguments from the given sets.
Calls(InitSizes, Sizes, Aligns, Strings, MarkSlots) ==
  \/ \E n \in InitSizes : ArenaInit(n)
  \/ ArenaDestroy
  \/ \E size \in Sizes, align \in Aligns : ArenaAllocAlign(size, align)
  \/ \E size \in Sizes : ArenaAlloc(size)
  \/ \E size \in Sizes, align \in Aligns : ArenaZallocAlign(size, align)
  \/ \E s \in Strings : ArenaStrdup(s)
  \/ ArenaReset
  \/ \E i \in MarkSlots : ArenaMark(i)
  \/ \E i \in MarkSlots : ArenaRelease(i)

Next == Calls({0, 8}, {0, 7, SIZE_MAX}, {1, 16}, {<<97, 98, 99, 100, 101, 102>>}, {1})

Spec == Init /\ [][Next]_vars

\* Every alignment of 0, 1, 2, ..., 64, on blocks large enough to hold a
\* region aligned to 64 and on blocks small enough to make room for a second.
NextAlign ==
  \/ \E n \in {8, 40} : ArenaInit(n)
  \/ ArenaDestroy
  \/ \E size \in {3}, align \in {0, 1, 2, 4, 8, 16, 32, 64} :
       ArenaAllocAlign(size, align)
  \/ ArenaReset

SpecAlign == Init /\ [][NextAlign]_vars

\* The regions handed out are recorded in `live`.
InitLive == Boot({"live"})

NextLive == Calls({0, 8}, {3}, {1}, {<<97, 98, 99, 100, 101, 102>>}, {1})

SpecLive == InitLive /\ [][NextLive]_vars

\* Scopes: a mark and its releases around allocations that fit, that add a
\* block, that overrun it and that are refused, with resets and destroys.
NextScope ==
  \/ \E n \in {8} : ArenaInit(n)
  \/ ArenaDestroy
  \/ \E size \in {0, 7}, align \in {1, 16} : ArenaAllocAlign(size, align)
  \/ \E size \in {16} : ArenaZallocAlign(size, 1)
  \/ ArenaReset
  \/ \E i \in {1} : ArenaMark(i)
  \/ \E i \in {1} : ArenaRelease(i)

SpecScope == Init /\ [][NextScope]_vars

\* The history of every mark is recorded, in two slots, so that mark and
\* release pairs nest.
InitMarks == Boot({"marks"})

NextMarks ==
  \/ \E n \in {8} : ArenaInit(n)
  \/ ArenaDestroy
  \/ \E size \in {7} : ArenaAllocAlign(size, 1)
  \/ \E size \in {16} : ArenaZallocAlign(size, 1)
  \/ ArenaReset
  \/ \E i \in Slots : ArenaMark(i)
  \/ \E i \in Slots : ArenaRelease(i)

SpecMarks == InitMarks /\ [][NextMarks]_vars

\* ------------------------------------------------------------ the claims

AlignOf(align) == IF align = 0 THEN MaxAlignT ELSE align

SumCapacity == SumSeq([b \in DOMAIN blocks |-> blocks[b].capacity], Chain)

Oldest(chain) == chain[Len(chain)]

\* The call that has just returned is a successful arena_alloc_align.
Returned == ret.op = "alloc_align" /\ ret.ptr # NULL

\* The least multiple of al that is >= base.
LeastAligned(base, al) ==
  CHOOSE x \in base .. (base + al) :
    /\ x % al = 0
    /\ \A y \in base .. (base + al) : y % al = 0 => x <= y

\* A region lies in the buffer of its block.
InBuffer(r) ==
  /\ r.blk \in DOMAIN blocks
  /\ Data(r.blk) <= r.addr
  /\ r.addr + r.size <= Data(r.blk) + blocks[r.blk].capacity

Disjoint(r, s) == r.addr + r.size <= s.addr \/ s.addr + s.size <= r.addr

\* C1: the regions handed out and not invalidated since lie each inside the
\* buffer of one block of the chain, with the size that was asked for, and
\* no two of them share a byte (so that writing one leaves the others as
\* they are).
C1_RegionsDisjointInOneBlock ==
  \A r \in live : InBuffer(r) /\ \A s \in live \ {r} : Disjoint(r, s)

\* C2: a successful allocate returns the smallest multiple of align that is
\* >= the data start of the block it allocates from plus that block's offset
\* before the call (0 for a block the call created), so an aligned base is
\* returned as it is, without padding.
C2_SmallestAlignedAddress ==
  [][Returned' =>
       ret'.ptr = LeastAligned(IF current' = current
                               THEN Data(current) + blocks[current].offset
                               ELSE Data(current'),
                               AlignOf(ret'.align))]_vars

\* C3: the address arena_alloc_align(size, a) returns is a multiple of a for
\* a in {1, 2, 4, 8, 16, 32, 64}, and a multiple of the maximum fundamental
\* alignment for a = 0.
C3_AddressIsAligned == Returned => ret.ptr % AlignOf(ret.align) = 0

\* An allocation aligned to 64 has succeeded after padding the block.
C3_Aligned64Returned ==
  /\ Returned
  /\ ret.align = 64
  /\ ret.ptr % 64 = 0
  /\ blocks[current].offset > ret.size

\* C4: when allocate creates a new Block because the current one cannot
\* satisfy the request, that Block has capacity
\* max(default_block_size, size + alignment slack) >= size, it is the new
\* current Block with the old current as its prev, and reserved grows by
\* exactly its capacity.
C4_NewBlockHoldsRequest ==
  [][(ret'.op = "alloc_align" /\ current # NULL /\ current' # current) =>
       LET slack == IF ret'.align # 0 THEN ret'.align - 1 ELSE 0
           nb    == blocks'[current']
       IN  /\ nb.capacity = arena__max(default_block_size, ret'.size + slack)
           /\ nb.capacity >= ret'.size
           /\ nb.prev = current
           /\ reserved' = Wrap(reserved + nb.capacity)]_vars

\* C5: an allocate call (size > 0) that returns "none" leaves the chain,
\* the current Block, every offset and reserved as they were.
C5_FailureChangesNothing ==
  [][(ret'.op = "alloc_align" /\ ret'.size > 0 /\ ret'.ptr = NULL) =>
       /\ blocks' = blocks
       /\ current' = current
       /\ reserved' = reserved]_vars

\* C6: allocate(SIZE_MAX - k, align) for k <= 1, on an Arena with or without
\* a block, returns "none" rather than a pointer.
C6_HugeRequestRefused ==
  [][(ret'.op = "alloc_align" /\ ret'.size >= SIZE_MAX - 1) => ret'.ptr = NULL]_vars

\* C7: arena_release of a mark restores arena_bytes_used to its value at the
\* arena_mark, when only allocations and nested mark/release pairs came in
\* between (no reset, destroy or init), also for a mark taken when the arena
\* had no block.
C7_ReleaseRestoresUsed ==
  [][(ret'.op = "release" /\ marks[ret'.slot].ok)
       => arena_bytes_used' = marks[ret'.slot].used]_vars

\* C8: after reset() on an Arena that has Blocks, exactly one Block remains,
\* it is the oldest Block of the chain before the reset, its offset is 0,
\* bytes_used() is 0 and bytes_reserved() is that Block's capacity.
C8_ResetKeepsOldest ==
  [][(ret'.op = "reset" /\ current # NULL) =>
       /\ Len(Chain') = 1
       /\ current' = Oldest(Chain)
       /\ blocks'[current'].offset = 0
       /\ arena_bytes_used' = 0
       /\ arena_bytes_reserved' = blocks'[current'].capacity]_vars

\* C9: bytes_used() <= bytes_reserved() in every reachable state.
C9_UsedAtMostReserved == arena_bytes_used <= arena_bytes_reserved

\* C10: reserved is the sum of the capacities of the Blocks of the chain in
\* every reachable state.
C10_ReservedIsSumOfCapacities == reserved = Wrap(SumCapacity)


\* C11: allocate(0, align) returns "none" and changes nothing: no block is
\* created (also on an Arena with no block), no offset moves, bytes_used
\* and bytes_reserved stay as they are.
C11_ZeroSizeIsNoOp ==
  [][(ret'.op = "alloc_align" /\ ret'.size = 0) =>
       /\ ret'.ptr = NULL
       /\ UNCHANGED arena
       /\ arena_bytes_used' = arena_bytes_used
       /\ arena_bytes_reserved' = arena_bytes_reserved]_vars

\* allocate(0, align) has returned on an Arena that has no block.
C11_ZeroSizeOnEmptyArena ==
  ret.op = "alloc_align" /\ ret.size = 0 /\ ret.align = 16 /\ current = NULL


\* The blocks of the chain that are newer than block mb.
Newer(mb) ==
  {Chain[j] : j \in {k \in 1 .. Len(Chain) : \A l \in 1 .. k : Chain[l] # mb}}

\* The capacity block b was created with.
CreatedCapacity(b) == heap[b] - HeaderSize

\* C12: destroy frees every block of the chain exactly once (no block is in
\* the chain twice, none was freed before) and nothing else, and leaves the
\* Arena as a zeroed one: no current block, default_block_size 0, reserved
\* 0, bytes_used 0, which is the state init and a lazy allocate start from.
C12_DestroyFreesChain ==
  [][ret'.op = "destroy" =>
       /\ Cardinality(SeqSet(Chain)) = Len(Chain)
       /\ SeqSet(Chain) \subseteq DOMAIN heap
       /\ DOMAIN heap' = DOMAIN heap \ SeqSet(Chain)
       /\ current' = NULL
       /\ default_block_size' = 0
       /\ reserved' = 0
       /\ arena_bytes_used' = 0]_vars

\* destroy has run on an Arena of which a block had been marked, and no
\* block is left.
C12_DestroyedMarkedArena ==
  /\ ret.op = "destroy"
  /\ DOMAIN heap = {}
  /\ current = NULL
  /\ marks[1].taken
  /\ marks[1].block # NULL
  /\ marks[1].offset > 0

\* C13: release(m) called twice in a row leaves the Arena (chain, offsets,
\* reserved) as the first call left it.
C13_ReleaseIdempotent ==
  [][(ret.op = "release" /\ ret'.op = "release" /\ ret'.slot = ret.slot)
       => UNCHANGED arena]_vars

\* release(m) has restored the offset of a marked block; a second
\* release(m) can follow.
C13_ReleasedToMark ==
  /\ ret.op = "release"
  /\ current # NULL
  /\ marks[ret.slot].block = current
  /\ blocks[current].offset = marks[ret.slot].offset
  /\ blocks[current].offset > 0
  /\ blocks[current].prev # NULL

ChainedNewBlock == ret'.op = "alloc_align" /\ current # NULL /\ current' # current

C16_ReleaseClampsToCapacity ==
  [][(ret'.op = "release" /\ current' # NULL /\ current' = marks[ret'.slot].block) =>
       LET m   == marks[ret'.slot]
           cap == blocks'[current'].capacity
       IN  blocks'[current'].offset = IF m.offset <= cap THEN m.offset ELSE cap]_vars


\* A mark, a reset and allocations that put new blocks where freed ones
\* were, with the mark's history recorded and every allocation inside its
\* block.
NextStale ==
  \/ \E n \in {8} : ArenaInit(n)
  \/ \E size \in {7} : ArenaAllocAlign(size, 1)
  \/ ArenaReset
  \/ \E i \in {1} : ArenaMark(i)
  \/ \E i \in {1} : ArenaRelease(i)

SpecStale == InitMarks /\ [][NextStale]_vars

\* C17: release(m) of a mark whose block a reset has freed frees every
\* block left in the chain, leaves no current block and reserved 0, and
\* restores no offset, also when malloc has given the marked address to a
\* newer block.  (Stated for Arenas in which every read of a freed block
\* has yielded what the block held.)
C17_StaleMarkFreesAll ==
  [][(ret'.op = "release" /\ marks[ret'.slot].freed /\ garbage_reads = 0) =>
       /\ current' = NULL
       /\ reserved' = 0
       /\ DOMAIN heap' = DOMAIN heap \ SeqSet(Chain)]_vars


\* C18: an allocate call (size > 0, default_block_size >= 1, align a power
\* of two) on an Arena with a block creates at most one new block, and when
\* it has created one, the retry fits and the call returns the region.
C18_OneNewBlockSuffices ==
  [][(ret'.op = "alloc_align" /\ ret'.size > 0 /\ current # NULL
        /\ default_block_size >= 1 /\ ret'.align \in {1, 2, 4, 8, 16, 32, 64}) =>
       /\ Cardinality(DOMAIN heap' \ DOMAIN heap) <= 1
       /\ DOMAIN heap' # DOMAIN heap => ret'.ptr # NULL]_vars


\* C19: no operation reads a field of a block after the block was freed:
\* garbage_reads counts the reads of capacity in freed blocks that have
\* yielded something else than the capacity, and there is none.
C19_NoReadAfterFree == garbage_reads = 0

====
